---- MODULE Spec2Model ----
(***************************************************************************)
(* Negotiation orchestration (ShoppingService.start_shopping with the     *)
(* buyer and seller decision agents) and settlement verification          *)
(* (execute_payment_for_deal / execute_x402_payment) of agent-commerce.    *)
(*                                                                         *)
(* Prices are whole dollars.  Every price of the model is a multiple of 50 *)
(* and the initial price is 1000, so that initial * 0.9, the seller's      *)
(* minimum price and the midpoint (initial + offer) / 2 are exact and      *)
(* round(x, 2) leaves them unchanged.                                      *)
(***************************************************************************)
EXTENDS Integers, Sequences, FiniteSets, TLC

\* Python None for an optional number (budget, negotiation_percentage,
\* a null proposed_price, a negotiation id that could not be created).
None == -1

\* A key that is absent from the decision service's JSON object.
Missing == -2

\* ---------------------------------------------------------------- bounds
MaxRounds == 2          \* max_rounds ranges over 1..MaxRounds
MaxProducts == 2        \* a session negotiates over 1..MaxProducts products
MaxCalls == 4           \* decision-agent invocations explored per session
MaxPersistFailures == 1 \* persistence calls that fail per session

\* ---------------------------------------------------------------- inputs
InitialPrices == {1000}
Budgets == {None, 850}
Percentages == {None, 10}
Prices == {800, 1000}

\* What the decision service can answer on one invocation:
\*   "raise"  - the direct call and the ReActAgent retry both raise
\*   "nojson" - an answer without a JSON object (or one json.loads rejects)
\*   "json"   - a JSON object; proposed_price is a number, null (None) or
\*              absent (Missing); an absent accept / reject reads as FALSE
\*              everywhere (dict.get(key, False) and setdefault(key, False))
LLMResponses ==
    {[kind |-> "raise", price |-> Missing, accept |-> FALSE, reject |-> FALSE],
     [kind |-> "nojson", price |-> Missing, accept |-> FALSE, reject |-> FALSE]}
    \cup [kind : {"json"}, price : Prices \cup {None, Missing},
          accept : BOOLEAN, reject : BOOLEAN]

\* ---------------------------------------------------------------- helpers
Min2(a, b) == IF a <= b THEN a ELSE b
Max2(a, b) == IF a >= b THEN a ELSE b

Last(s) == s[Len(s)]

\* s[-n:]
Tail_n(s, n) == IF Len(s) <= n THEN s ELSE SubSeq(s, Len(s) - n + 1, Len(s))

\* `budget is None or price <= budget`
WithinBudgetNoCheck(b, price) == TRUE
WithinBudget(b, price) == b = None \/ price <= b

\* initial_price * 0.9
NinetyPercent(p) == (p * 9) \div 10

Proposal(price, acc, rej) == [proposed_price |-> price, accept |-> acc, reject |-> rej]

\* ------------------------------------------------- ShoppingAgent (buyer)
BuyerErrorFallbackNoPrice(initial) == Proposal(None, FALSE, FALSE)

\* The dict negotiate_with_merchant's outer `except Exception` returns.
BuyerErrorFallback(initial) == Proposal(initial, FALSE, FALSE)

\* The dict returned when the answer holds no JSON object or json.loads fails.
BuyerFallback(initial, b) ==
    Proposal(IF b # None THEN Min2(NinetyPercent(initial), b) ELSE NinetyPercent(initial),
             FALSE, FALSE)

\* current_price as negotiate_with_merchant derives it from the history.
BuyerCurrentPrice(initial, conv) ==
    IF conv # <<>> /\ Last(conv).proposed_price \notin {None, 0}
    THEN Last(conv).proposed_price
    ELSE initial

\* [msg.proposed_price for msg in conversation_history[-4:] if sender == merchant]
RecentMerchantPrices(conv) ==
    LET t == Tail_n(conv, 4)
    IN {t[i].proposed_price : i \in {j \in 1..Len(t) : t[j].sender = "merchant"}}

BuyerBudgetEnforcementNeverAccepts(p0, acc0, rej0, initial, conv, b) ==
    Proposal(IF p0 > b THEN b ELSE p0, FALSE, rej0)

BuyerBudgetEnforcementKeepsAccept(p0, acc0, rej0, initial, conv, b) ==
    Proposal(IF p0 > b THEN b ELSE p0, acc0, rej0)

\* The parsed branch with a budget set and a numeric proposed_price p0.
BuyerBudgetEnforcement(p0, acc0, rej0, initial, conv, b) ==
    LET current_price == BuyerCurrentPrice(initial, conv)
        \* proposed price above the budget: cap it, never accept
        over == p0 > b
        p1 == IF over THEN b ELSE p0
        a1 == IF over THEN FALSE ELSE acc0
        \* accepting while current or proposed price exceeds the budget
        a2 == IF a1 /\ (current_price > b \/ p1 > b) THEN FALSE ELSE a1
        \* merchant consistently above budget: explicit rejection
        recent == RecentMerchantPrices(conv)
        giveup == /\ Len(conv) >= 4
                  /\ recent # {}
                  /\ \A q \in recent : q > b
                  /\ current_price * 10 > b * 11
        a3 == IF giveup THEN FALSE ELSE a2
        r3 == IF giveup THEN TRUE ELSE rej0
        \* last message is the merchant's and its price is within budget
        force == /\ conv # <<>>
                 /\ Last(conv).sender = "merchant"
                 /\ current_price <= b
                 /\ p1 <= b
        a4 == IF force THEN TRUE ELSE a3
        r4 == IF force THEN FALSE ELSE r3
    IN Proposal(p1, a4, r4)

\* ShoppingAgent.negotiate_with_merchant: the Proposal it returns for the
\* decision service's answer resp.
NegotiateWithMerchant(resp, initial, conv, b) ==
    CASE resp.kind = "raise" -> BuyerErrorFallback(initial)
      [] resp.kind = "nojson" -> BuyerFallback(initial, b)
      [] OTHER ->
         LET p0 == IF resp.price = Missing THEN NinetyPercent(initial) ELSE resp.price
         IN IF b = None
            THEN Proposal(p0, resp.accept, resp.reject)
            ELSE IF p0 = None
                 \* None > budget raises TypeError, caught by the outer except
                 THEN BuyerErrorFallback(initial)
                 ELSE BuyerBudgetEnforcement(p0, resp.accept, resp.reject, initial, conv, b)

\* ------------------------------------------------- MerchantAgent (seller)
\* min_price = round(initial_price * (1 - negotiation_percentage / 100), 2)
MinPrice(initial, pct) == (initial * (100 - pct)) \div 100

\* (initial_price + buyer_offer) / 2
Midpoint(initial, offer) == (initial + offer) \div 2

\* discount <= limit, with discount = (initial - offer) / initial * 100 and
\* limit given in tenths of a percent
DiscountAtMost(initial, offer, tenths) == (initial - offer) * 1000 <= tenths * initial

\* The fallback after an answer that holds no JSON object.
SellerFallback(initial, offer, pct) ==
    IF pct # None
    THEN LET min_price == MinPrice(initial, pct)
         IN IF offer >= min_price
            THEN IF DiscountAtMost(initial, offer, pct * 7)
                 THEN Proposal(offer, TRUE, FALSE)
                 ELSE Proposal(Max2(min_price, Midpoint(initial, offer)), FALSE, FALSE)
            ELSE IF offer * 10 < min_price * 8
                 THEN Proposal(min_price, FALSE, TRUE)
                 ELSE Proposal(min_price, FALSE, FALSE)
    ELSE IF DiscountAtMost(initial, offer, 150)
         THEN Proposal(offer, TRUE, FALSE)
         ELSE Proposal(Midpoint(initial, offer), FALSE, FALSE)

\* The fallback of negotiate_with_buyer's outer `except Exception`.
SellerErrorFallback(initial, offer, pct) ==
    IF pct # None
    THEN LET min_price == MinPrice(initial, pct)
         IN IF offer >= min_price
            THEN Proposal(offer, TRUE, FALSE)
            ELSE Proposal(min_price, FALSE, FALSE)
    ELSE IF DiscountAtMost(initial, offer, 150)
         THEN Proposal(offer, TRUE, FALSE)
         ELSE Proposal(NinetyPercent(initial), FALSE, FALSE)

\* MerchantAgent.negotiate_with_buyer: the Proposal it returns.
NegotiateWithBuyer(resp, initial, offer, pct) ==
    CASE resp.kind = "raise" -> SellerErrorFallback(initial, offer, pct)
      [] resp.kind = "nojson" -> SellerFallback(initial, offer, pct)
      [] OTHER ->
         Proposal(IF resp.price = Missing THEN offer ELSE resp.price,
                  resp.accept, resp.reject)

\* ------------------------------------------------------------------ state
VARIABLES
    budget,          \* start_shopping's budget argument (None: no budget)
    max_rounds,      \* start_shopping's max_rounds argument
    num_products,    \* len(products); a product's fields are drawn when the
                     \* loop reaches it
    pc,              \* where start_shopping stands
    product_idx,     \* position of `for product in products`
    initial_price,   \* float(product["price"]) of the current product
    negotiation_percentage, \* product["negotiation_percentage"], may be None
    negotiation_id,  \* id of the current negotiation record, None if not created
    round_num,       \* loop variable of `for round_num in range(max_rounds)`
    conversation,    \* in-memory transcript of the current negotiation
    current_price,
    client_price,
    agreed,
    offers,          \* offers collected so far
    negotiations,    \* negotiations table: id -> [status, final_price, agreed]
    chat_history,    \* agent_chat_history table, in insertion order
    result,          \* what start_shopping returned (status "running" before)
    calls,           \* decision-agent invocations so far
    failures,        \* persistence calls that failed so far
    decision         \* how the decision service answered in the last turn of
                     \* the current negotiation: "raise", "nojson" or "json"
                     \* ("none" before the first turn)

shopVars == <<budget, max_rounds, num_products, pc, product_idx, initial_price,
              negotiation_percentage, negotiation_id, round_num, conversation, current_price, client_price, agreed,
              offers, negotiations, chat_history, result, calls, failures,
              decision>>

VARIABLES
    pay_pc,       \* where the settlement invocation stands
    pay,          \* locals of the running invocation
    pay_result,   \* what the last finished invocation returned
    pay_log,      \* external calls made so far: <<operation, negotiation id>>
    settled,      \* negotiation ids of invocations that returned success
    invocations   \* invocations started so far

payVars == <<pay_pc, pay, pay_result, pay_log, settled, invocations>>

\* The HTTP routes negotiate_and_pay and single_negotiation.
VARIABLES
    route_pc,     \* "idle", or "paying" while execute_payment_for_deal runs
    request,      \* the request being served and what start_shopping returned
    response,     \* the last response sent
    requests      \* requests served so far

routeVars == <<route_pc, request, response, requests>>

\* One call of a decision agent on its own.
VARIABLES
    agent_call,   \* the arguments and the decision service's answer
    agent_reply   \* the Proposal the agent returned

agentVars == <<agent_call, agent_reply>>

\* What start_shopping works with: the products the search returned and the
\* decision service.
VARIABLES
    catalogue,    \* the product records a session's products are drawn from
    script        \* the decision service's answers to the first invocations
                  \* of a session, in order; later invocations are answered
                  \* in any way

envVars == <<catalogue, script>>

ProductRecords == [price : InitialPrices, negotiation_percentage : Percentages]

NoRecord == [status |-> "none", final_price |-> None, agreed |-> FALSE]

NoOffer == [negotiation_id |-> None, product |-> 0, initial_price |-> 0,
            negotiated_price |-> 0, agreed |-> FALSE, conversation |-> <<>>]

Running == [status |-> "running", best_offer |-> NoOffer, deal_successful |-> FALSE]

\* Any products; no answer of the decision service is fixed.
InitEnv ==
    /\ catalogue = ProductRecords
    /\ script = <<>>

\* The answers the decision service can give to the next invocation.
Answers == IF calls < Len(script) THEN {script[calls + 1]} ELSE LLMResponses

\* The id create_negotiation gives the record of the idx-th product's
\* negotiation: a fresh one per record.
SharedNegotiationId(idx) == 1
NegotiationId(idx) == idx

InitShop ==
    /\ budget \in Budgets
    /\ max_rounds \in 1..MaxRounds
    /\ num_products \in 0..MaxProducts
    /\ pc = "start"
    /\ product_idx = 1
    /\ initial_price = 0
    /\ negotiation_percentage = None
    /\ negotiation_id = None
    /\ round_num = 0
    /\ conversation = <<>>
    /\ current_price = 0
    /\ client_price = 0
    /\ agreed = FALSE
    /\ offers = <<>>
    /\ negotiations = [i \in 1..MaxProducts |-> NoRecord]
    /\ chat_history = <<>>
    /\ result = Running
    /\ calls = 0
    /\ failures = 0
    /\ decision = "none"

\* A persistence call either succeeds or raises; at most MaxPersistFailures
\* of them raise in one session.
PersistOutcomes == IF failures < MaxPersistFailures THEN BOOLEAN ELSE {TRUE}

\* `for round_num in range(max_rounds)`: is there another iteration?
LoopContinuesOffByOne(r, mr) == r + 1 <= mr
LoopContinues(r, mr) == r + 1 < mr

LastRoundAlways(r, mr) == TRUE

\* round_num == max_rounds - 1
LastRound(r, mr) == r = mr - 1

\* products is the empty list.
NoProducts ==
    /\ UNCHANGED <<payVars, routeVars, agentVars, envVars>>
    /\ pc = "start"
    /\ num_products = 0
    /\ result' = [Running EXCEPT !.status = "no_products_found"]
    /\ pc' = "done"
    /\ UNCHANGED <<budget, max_rounds, num_products, product_idx, initial_price,
                   negotiation_percentage, negotiation_id, round_num, conversation,
                   current_price, client_price, agreed, offers, negotiations,
                   chat_history, calls, failures, decision>>

\* The product has no agent_id, its merchant agent is not found or
\* MerchantAgent cannot be initialized: `continue`.
SkipProduct ==
    /\ UNCHANGED <<payVars, routeVars, agentVars, envVars>>
    /\ pc = "start"
    /\ product_idx <= num_products
    /\ product_idx' = product_idx + 1
    /\ UNCHANGED <<budget, max_rounds, num_products, pc, initial_price,
                   negotiation_percentage, negotiation_id, round_num, conversation, current_price, client_price, agreed,
                   offers, negotiations, chat_history, result, calls, failures,
                   decision>>

\* Lines 127-173: create the negotiation record and set up the round loop.
StartNegotiation ==
    /\ UNCHANGED <<payVars, routeVars, agentVars, envVars>>
    /\ pc = "start"
    /\ product_idx <= num_products
    /\ \E ok \in PersistOutcomes :
        IF ok
        THEN /\ negotiation_id' = NegotiationId(product_idx)
             /\ negotiations' = [negotiations EXCEPT
                    ![NegotiationId(product_idx)] =
                        [status |-> "in_progress", final_price |-> None, agreed |-> FALSE]]
             /\ UNCHANGED failures
        ELSE /\ negotiation_id' = None
             /\ failures' = failures + 1
             /\ UNCHANGED negotiations
    /\ \E product \in catalogue :
        /\ initial_price' = product.price
        /\ negotiation_percentage' = product.negotiation_percentage
        /\ current_price' = product.price
    /\ conversation' = <<>>
    /\ agreed' = FALSE
    /\ round_num' = 0
    /\ pc' = "buyer"
    /\ UNCHANGED <<budget, max_rounds, num_products, product_idx, client_price,
                   offers, chat_history, result, calls, decision>>

\* The iteration for the current product is over.  Its locals are dead (each
\* is assigned again before it is next read, lines 127-173 and 191), so
\* they are put back to their initial values and states that differ only in
\* dead locals coincide.
NextProduct ==
    /\ pc' = "start"
    /\ product_idx' = product_idx + 1
    /\ initial_price' = 0
    /\ negotiation_percentage' = None
    /\ negotiation_id' = None
    /\ round_num' = 0
    /\ conversation' = <<>>
    /\ current_price' = 0
    /\ client_price' = 0
    /\ agreed' = FALSE
    /\ decision' = "none"

\* Outcomes of a persistence call for the current negotiation; nothing is
\* called (and nothing can fail) when the record was never created.
WriteOutcomes == IF negotiation_id = None THEN {TRUE} ELSE PersistOutcomes

CreateChatMessageFirstRound(ok, sender, p) ==
    /\ chat_history' =
          IF negotiation_id # None /\ ok
          THEN Append(chat_history,
                      [negotiation_id |-> negotiation_id,
                       round_number |-> 1,
                       sender |-> sender,
                       proposed_price |-> p.proposed_price,
                       accept |-> p.accept])
          ELSE chat_history
    /\ failures' = IF ok THEN failures ELSE failures + 1

\* chat_history_ops.create_chat_message inside its try / except.
CreateChatMessage(ok, sender, p) ==
    /\ chat_history' =
          IF negotiation_id # None /\ ok
          THEN Append(chat_history,
                      [negotiation_id |-> negotiation_id,
                       round_number |-> round_num + 1,
                       sender |-> sender,
                       proposed_price |-> p.proposed_price,
                       accept |-> p.accept])
          ELSE chat_history
    /\ failures' = IF ok THEN failures ELSE failures + 1

Entry(sender, p) ==
    [sender |-> sender, proposed_price |-> p.proposed_price,
     accept |-> p.accept, reject |-> p.reject]

\* Lines 178-240: the buyer's turn of one round, up to the point where the
\* seller is invoked or the loop is left.
AcceptedPriceStale(current, client) == current

\* Line 236: on the buyer's acceptance the buyer's proposed price becomes
\* the current price.
AcceptedPrice(current, client) == client

BuyerTurn ==
    /\ UNCHANGED <<payVars, routeVars, agentVars, envVars>>
    /\ pc = "buyer"
    /\ calls < MaxCalls
    /\ \E resp \in Answers, ok \in WriteOutcomes :
        LET client_response ==
                NegotiateWithMerchant(resp, initial_price, conversation, budget)
            price == client_response.proposed_price
        IN /\ CreateChatMessage(ok, "client", client_response)
           /\ conversation' = Append(conversation, Entry("client", client_response))
           /\ client_price' = price
           /\ decision' = resp.kind
           /\ UNCHANGED <<product_idx, initial_price, negotiation_percentage,
                          negotiation_id, round_num>>
           /\ IF price = None
              \* formatting None with :.2f raises (line 216) and control
              \* passes to the handler around the product's negotiation
              THEN /\ pc' = "abandon"
                   /\ UNCHANGED <<agreed, current_price>>
              ELSE /\ IF client_response.reject
                      THEN /\ agreed' = FALSE
                           /\ pc' = "final"
                           /\ UNCHANGED current_price
                      ELSE IF client_response.accept /\ WithinBudget(budget, current_price)
                      THEN /\ agreed' = TRUE
                           /\ current_price' = AcceptedPrice(current_price, price)
                           /\ pc' = "final"
                      ELSE /\ agreed' = FALSE
                           /\ pc' = "seller"
                           /\ UNCHANGED current_price
    /\ calls' = calls + 1
    /\ UNCHANGED <<budget, max_rounds, num_products, offers, negotiations, result>>

\* Lines 242-320: the seller's turn of one round, up to the next round's
\* buyer invocation or the point where the loop is left.
SellerTurn ==
    /\ UNCHANGED <<payVars, routeVars, agentVars, envVars>>
    /\ pc = "seller"
    /\ calls < MaxCalls
    /\ \E resp \in Answers, ok \in WriteOutcomes :
        LET merchant_response ==
                NegotiateWithBuyer(resp, initial_price, client_price,
                                   negotiation_percentage)
            merchant_price == merchant_response.proposed_price
            last == LastRound(round_num, max_rounds)
            next_pc == IF LoopContinues(round_num, max_rounds) THEN "buyer" ELSE "final"
        IN /\ CreateChatMessage(ok, "merchant", merchant_response)
           /\ decision' = resp.kind
           /\ conversation' = Append(conversation, Entry("merchant", merchant_response))
           /\ UNCHANGED <<product_idx, initial_price, negotiation_percentage,
                          negotiation_id, client_price>>
           /\ IF merchant_price = None
              \* line 280 raises in the same way
              THEN /\ pc' = "abandon"
                   /\ UNCHANGED <<agreed, current_price, round_num>>
              ELSE /\ IF merchant_response.reject
                      THEN /\ agreed' = FALSE
                           /\ pc' = "final"
                           /\ UNCHANGED <<current_price, round_num>>
                      ELSE IF merchant_response.accept /\ ~WithinBudget(budget, merchant_price)
                      THEN /\ agreed' = FALSE
                           /\ current_price' = merchant_price
                           /\ IF last
                              THEN pc' = "final" /\ UNCHANGED round_num
                              ELSE pc' = next_pc /\ round_num' = round_num + 1
                      ELSE IF merchant_response.accept /\ last
                      THEN /\ agreed' = WithinBudget(budget, merchant_price)
                           /\ current_price' = merchant_price
                           /\ pc' = "final"
                           /\ UNCHANGED round_num
                      ELSE /\ current_price' = merchant_price
                           /\ pc' = next_pc
                           /\ round_num' = IF next_pc = "buyer" THEN round_num + 1
                                           ELSE round_num
                           /\ UNCHANGED agreed
    /\ calls' = calls + 1
    /\ UNCHANGED <<budget, max_rounds, num_products, offers, negotiations, result>>

\* Lines 373-375: an exception raised inside the product's negotiation is
\* logged and the loop goes on with the next product; no offer is stored and
\* update_negotiation is not called.
AbandonNegotiation ==
    /\ UNCHANGED <<payVars, routeVars, agentVars, envVars>>
    /\ pc = "abandon"
    /\ NextProduct
    /\ UNCHANGED <<budget, max_rounds, num_products, offers, negotiations,
                   chat_history, result, calls, failures>>

RecentRejectNever(conv) == FALSE

RecentRejectBeforeLast(conv) ==
    Len(conv) >= 2 /\ conv[Len(conv) - 1].reject

\* any(msg.get("reject") for msg in conversation[-2:])
RecentReject(conv) ==
    LET t == Tail_n(conv, 2) IN \E i \in 1..Len(t) : t[i].reject

OfferOfRecord(id, agreed1) ==
    [negotiation_id |-> id,
     product |-> product_idx,
     initial_price |-> initial_price,
     negotiated_price |-> IF id # None THEN current_price ELSE initial_price,
     agreed |-> agreed1 /\ id # None,
     conversation |-> conversation]

\* Lines 353-365: the offer of the negotiation that just ended, built from
\* the loop's locals.
Offer(id, agreed1) ==
    [negotiation_id |-> id,
     product |-> product_idx,
     initial_price |-> initial_price,
     negotiated_price |-> current_price,
     agreed |-> agreed1,
     conversation |-> conversation]

\* Lines 322-371: the final budget check, update_negotiation and the offer.
Finalize ==
    /\ UNCHANGED <<payVars, routeVars, agentVars, envVars>>
    /\ pc = "final"
    /\ LET agreed1 == agreed /\ WithinBudget(budget, current_price)
           final_status == IF agreed1 THEN "agreed"
                           ELSE IF RecentReject(conversation) THEN "rejected"
                           ELSE "failed"
       IN /\ \E ok \in WriteOutcomes :
               IF negotiation_id # None /\ ok
               THEN /\ negotiations' = [negotiations EXCEPT ![negotiation_id] =
                           [status |-> final_status, final_price |-> current_price,
                            agreed |-> agreed1]]
                    /\ UNCHANGED failures
               ELSE /\ failures' = IF ok THEN failures ELSE failures + 1
                    /\ UNCHANGED negotiations
          /\ offers' = Append(offers, Offer(negotiation_id, agreed1))
    /\ NextProduct
    /\ UNCHANGED <<budget, max_rounds, num_products, chat_history, result, calls>>

\* ------------------------------------------------------- offer selection
\* [o for o in s if P(o)], order kept
RECURSIVE AgreedOffers(_)
AgreedOffers(s) ==
    IF s = <<>> THEN <<>>
    ELSE IF s[1].agreed /\ WithinBudget(budget, s[1].negotiated_price)
         THEN <<s[1]>> \o AgreedOffers(Tail(s))
         ELSE AgreedOffers(Tail(s))

\* o inserted into the price-sorted s behind every offer of the same price
RECURSIVE InsertByPrice(_, _)
InsertByPrice(o, s) ==
    IF s = <<>> THEN <<o>>
    ELSE IF o.negotiated_price < s[1].negotiated_price
         THEN <<o>> \o s
         ELSE <<s[1]>> \o InsertByPrice(o, Tail(s))

\* sorted(s, key=negotiated_price): stable
RECURSIVE SortByPrice(_)
SortByPrice(s) ==
    IF s = <<>> THEN <<>>
    ELSE InsertByPrice(s[Len(s)], SortByPrice(SubSeq(s, 1, Len(s) - 1)))

\* min(s, key=negotiated_price): the first offer of minimal price
MinByPrice(s) ==
    LET i == CHOOSE j \in 1..Len(s) :
                 /\ \A k \in 1..Len(s) : s[j].negotiated_price <= s[k].negotiated_price
                 /\ \A k \in 1..(j - 1) : s[k].negotiated_price > s[j].negotiated_price
    IN s[i]

\* Lines 377-435: the loop over the products is over; select the best offer.
\* select_best_offer returns the offer whose index the decision service
\* named, or else the lowest-priced one.
SelectBestOffer ==
    /\ UNCHANGED <<payVars, routeVars, agentVars, envVars>>
    /\ pc = "start"
    /\ num_products > 0
    /\ product_idx > num_products
    /\ IF offers = <<>>
       THEN result' = [Running EXCEPT !.status = "no_offers"]
       ELSE LET within == AgreedOffers(offers)
                valid_offers == IF within = <<>> THEN SortByPrice(offers) ELSE within
            IN \E pick \in 0..Len(valid_offers) :
                 LET best_offer == IF pick = 0 THEN MinByPrice(valid_offers)
                                   ELSE valid_offers[pick]
                     deal_successful ==
                         best_offer.agreed
                         /\ WithinBudget(budget, best_offer.negotiated_price)
                 IN result' = [status |-> IF deal_successful THEN "offer_selected"
                                          ELSE "no_valid_offers",
                               best_offer |-> best_offer,
                               deal_successful |-> deal_successful]
    /\ pc' = "done"
    /\ UNCHANGED <<budget, max_rounds, num_products, product_idx, initial_price,
                   negotiation_percentage, negotiation_id, round_num, conversation,
                   current_price, client_price, agreed, offers, negotiations,
                   chat_history, calls, failures, decision>>

\* ============================================================ settlement
\* Ledger addresses.  "0xA" is the checksum spelling and "0xa" the lower-case
\* spelling of one account; NoAddr stands for Python None and "" for the
\* empty string (both are falsy).
NoAddr == "None"
ChecksumAddrs == {"0xA", "0xB", "0xC"}
LowerAddrs == {"0xa", "0xb", "0xc"}

\* str.lower()
Lower(a) ==
    CASE a = "0xA" -> "0xa"
      [] a = "0xB" -> "0xb"
      [] a = "0xC" -> "0xc"
      [] OTHER -> a

\* Web3.to_checksum_address
ToChecksum(a) ==
    CASE a = "0xa" -> "0xA"
      [] a = "0xb" -> "0xB"
      [] a = "0xc" -> "0xC"
      [] OTHER -> a

\* Python truthiness of an optional string
Truthy(a) == a \notin {NoAddr, ""}

\* `a or b`
Or(a, b) == IF Truthy(a) THEN a ELSE b

MaxInvocations == 2     \* settlement invocations explored

\* Prices and products of the deals that are settled
PayPrices == {800, 850}
ProductNames == {"laptop"}

\* cart_id = f"cart_{negotiation_id}" if negotiation_id else f"cart_{uuid.uuid4()}"
GeneratedCart == 0
CartId(nid) == IF nid # None THEN nid ELSE GeneratedCart

\* negotiation_id is optional
PayNegotiationIds == {None, 1}

NoPay == [negotiation_id |-> None,
          client_public_address |-> NoAddr, client_wallet_address |-> NoAddr,
          merchant_public_address |-> NoAddr, merchant_wallet_address |-> NoAddr,
          request_settlement |-> NoAddr,
          transaction_hash |-> NoAddr, settlement_address |-> NoAddr,
          actual_recipient_address |-> NoAddr,
          product_name |-> "", final_price |-> None, cart_id |-> None]

\* The evidence record of lines 710-722 built from the locals p: the
\* addresses are taken wallet file first, settlement_address is the ledger's
\* recipient when the ledger gave one (lines 683-685, applied by
\* CheckRecipient) and the one the SDK reported otherwise.
Evidence(p) ==
    [negotiation_id |-> p.negotiation_id,
     cart_id |-> p.cart_id,
     product_name |-> p.product_name,
     final_price |-> p.final_price,
     client_address |-> Or(p.client_wallet_address, p.client_public_address),
     merchant_address |-> Or(p.merchant_wallet_address, p.merchant_public_address),
     transaction_hash |-> p.transaction_hash,
     settlement_address |-> p.settlement_address]

\* No evidence was stored.
NoEvidence == Evidence(NoPay)

NoResult == [status |-> "none", negotiation_id |-> None,
             transaction_hash |-> NoAddr, settlement_address |-> NoAddr,
             client_address |-> NoAddr, merchant_address |-> NoAddr,
             actual_recipient_address |-> NoAddr,
             would_pay |-> None,
             evidence |-> NoEvidence]

InitPayIdle ==
    /\ pay_pc = "idle"
    /\ pay = NoPay
    /\ pay_result = NoResult
    /\ pay_log = <<>>
    /\ settled = {}
    /\ invocations = 0

\* merchant_public_address or merchant_wallet_address
ExpectedMerchant(p) == Or(p.merchant_public_address, p.merchant_wallet_address)

\* client_public_address or client_wallet_address
ExpectedClient(p) == Or(p.client_public_address, p.client_wallet_address)

\* The invocation returns r; its locals die.
PayReturn(status, p, evidence) ==
    /\ pay_result' = [status |-> status,
                      negotiation_id |-> p.negotiation_id,
                      transaction_hash |-> p.transaction_hash,
                      settlement_address |-> p.settlement_address,
                      client_address |-> ExpectedClient(p),
                      merchant_address |-> ExpectedMerchant(p),
                      actual_recipient_address |-> p.actual_recipient_address,
                      would_pay |-> IF status = "dry_run" THEN p.final_price ELSE None,
                      evidence |-> evidence]
    /\ settled' = IF status = "success" /\ p.negotiation_id # None
                  THEN settled \cup {p.negotiation_id} ELSE settled
    /\ pay' = NoPay
    /\ pay_pc' = "idle"

\* (merchant_public_address or merchant_wallet_address or "")
ExpectedMerchantOrEmpty(p) == Or(ExpectedMerchant(p), "")

\* An external call the invocation made: the SDK's create_x402_payment_request
\* ("intent"), execute_x402_crypto_payment ("transfer"), the ledger read
\* ("ledger") or store_evidence ("evidence"), and whether the settlement
\* address of the payment request was, at that point, the merchant address
\* expected.
PayLog(op, p) ==
    pay_log' = Append(pay_log,
                      [op |-> op,
                       negotiation_id |-> p.negotiation_id,
                       to_merchant |-> Lower(p.request_settlement)
                                         = Lower(ExpectedMerchantOrEmpty(p))])

\* Lines 295-346 of execute_x402_payment: the checks on the four addresses
\* it is given, before any external call.  TRUE when none raises.
AddressChecksPass(p) ==
    /\ ~(/\ Truthy(p.client_public_address) /\ Truthy(p.client_wallet_address)
         /\ Lower(p.client_public_address) # Lower(p.client_wallet_address))
    /\ ~(/\ Truthy(p.merchant_public_address) /\ Truthy(p.merchant_wallet_address)
         /\ Lower(p.merchant_public_address) # Lower(p.merchant_wallet_address))
    /\ ~(/\ Truthy(p.client_wallet_address) /\ Truthy(p.merchant_wallet_address)
         /\ Lower(p.client_wallet_address) = Lower(p.merchant_wallet_address))

\* if not merchant_public_address: merchant_public_address = merchant_wallet_address
DefaultMerchantAddress(p) ==
    IF Truthy(p.merchant_public_address) THEN p
    ELSE [p EXCEPT !.merchant_public_address = p.merchant_wallet_address]

\* execute_x402_payment called with arbitrary arguments: lines 294-371.
InvokeX402 ==
    /\ UNCHANGED <<shopVars, routeVars, agentVars, envVars>>
    /\ pay_pc = "idle"
    /\ invocations < MaxInvocations
    /\ invocations' = invocations + 1
    /\ \E nid \in PayNegotiationIds, price \in PayPrices, product \in ProductNames,
          cp \in {NoAddr, "0xA", "0xa"}, cw \in {NoAddr, "0xA", "0xB"},
          mp \in {NoAddr, "", "0xB", "0xb", "0xA"}, mw \in {NoAddr, "0xB", "0xA"} :
        LET p == [NoPay EXCEPT !.negotiation_id = nid,
                               !.product_name = product,
                               !.final_price = price,
                               !.cart_id = CartId(nid),
                               !.client_public_address = cp,
                               !.client_wallet_address = cw,
                               !.merchant_public_address = mp,
                               !.merchant_wallet_address = mw]
        IN IF AddressChecksPass(p)
           THEN /\ pay' = DefaultMerchantAddress(p)
                /\ pay_pc' = "intent"
                /\ pay_result' = NoResult
                /\ UNCHANGED settled
           ELSE PayReturn("error", [NoPay EXCEPT !.negotiation_id = nid], NoEvidence)
    /\ UNCHANGED pay_log

\* execute_payment_for_deal (routes.py 221-276) for the offer with this
\* negotiation id, product and price: dry run, initialize_agent_sdks and the
\* merchant address check, then execute_x402_payment's lines 294-371 with
\* the wallet addresses get_agent_sdk derived from the private keys.
ForDeal(dry_run, nid, product, price) ==
    /\ pay_pc = "idle"
    /\ invocations < MaxInvocations
    /\ invocations' = invocations + 1
    /\ IF dry_run
       THEN PayReturn("dry_run", [NoPay EXCEPT !.negotiation_id = nid,
                                               !.final_price = price], NoEvidence)
       ELSE \/ \* a private key is missing or cannot be decrypted, or
               \* get_agent_sdk raises
               PayReturn("error", [NoPay EXCEPT !.negotiation_id = nid], NoEvidence)
            \/ \E cp \in {NoAddr, "0xA", "0xa"}, cd \in {"0xA", "0xB"},
                  mp \in {NoAddr, "", "0xB", "0xb", "0xA"}, md \in {"0xB", "0xA"} :
                LET p == [NoPay EXCEPT !.negotiation_id = nid,
                                       !.product_name = product,
                                       !.final_price = price,
                                       !.cart_id = CartId(nid),
                                       !.client_public_address = cp,
                                       !.client_wallet_address = cd,
                                       !.merchant_public_address = mp,
                                       !.merchant_wallet_address = md]
                    \* initialize_agent_sdks: each key matches its public
                    \* address, and the two public addresses differ
                    sdks_ok ==
                        /\ ~(Truthy(cp) /\ Lower(cd) # Lower(cp))
                        /\ ~(Truthy(mp) /\ Lower(md) # Lower(mp))
                        /\ ~(Truthy(cp) /\ Truthy(mp) /\ Lower(cp) = Lower(mp))
                IN IF sdks_ok /\ Truthy(mp) /\ AddressChecksPass(p)
                   THEN /\ pay' = p
                        /\ pay_pc' = "intent"
                        /\ pay_result' = NoResult
                        /\ UNCHANGED settled
                   ELSE PayReturn("error", [NoPay EXCEPT !.negotiation_id = nid], NoEvidence)
    /\ UNCHANGED pay_log

\* execute_payment_for_deal called for any deal.
InvokeForDeal ==
    /\ UNCHANGED <<shopVars, routeVars, agentVars, envVars>>
    /\ \E dry_run \in BOOLEAN, nid \in PayNegotiationIds,
          product \in ProductNames, price \in PayPrices :
        ForDeal(dry_run, nid, product, price)

SettlementMatchesUnchecked(s, p) == s # NoAddr

\* Lines 403, 482 and 515: payment_request.settlement_address.lower() equals
\* the expected merchant address; None has no lower() and raises.
SettlementMatches(s, p) ==
    s # NoAddr /\ Lower(s) = Lower(ExpectedMerchantOrEmpty(p))

\* Lines 372-520: the seller side creates the payment request; its
\* settlement_address must be the merchant's address.
CreatePaymentRequest ==
    /\ UNCHANGED <<shopVars, routeVars, agentVars, envVars>>
    /\ pay_pc = "intent"
    /\ \E s \in {"raise", NoAddr, "", "0xB", "0xb", "0xA", "0xC"} :
        IF s = "raise"
        THEN PayReturn("error", pay, NoEvidence) /\ UNCHANGED pay_log
        ELSE /\ PayLog("intent", [pay EXCEPT !.request_settlement = s])
             /\ IF SettlementMatches(s, pay)
                THEN /\ pay' = [pay EXCEPT !.request_settlement = s]
                     /\ pay_pc' = "transfer"
                     /\ UNCHANGED <<pay_result, settled>>
                ELSE PayReturn("error", [pay EXCEPT !.request_settlement = s], NoEvidence)
    /\ UNCHANGED invocations

\* Lines 640-685: the recipient checks.  verified_recipient is the on-chain
\* recipient if one was read, otherwise the settlement address reported by
\* the payment result.
VerifiedRecipient(p) == Or(p.actual_recipient_address, p.settlement_address)

RecipientChecksPassNoClientCheck(p) ==
    LET verified_recipient == VerifiedRecipient(p)
    IN ~(/\ Truthy(verified_recipient) /\ Truthy(ExpectedMerchant(p))
         /\ Lower(verified_recipient) # Lower(ExpectedMerchant(p)))

RecipientChecksPassNoMerchantCheck(p) ==
    LET verified_recipient == VerifiedRecipient(p)
    IN ~(/\ Truthy(verified_recipient) /\ Truthy(ExpectedClient(p))
         /\ Lower(verified_recipient) = Lower(ExpectedClient(p)))

RecipientChecksPass(p) ==
    LET verified_recipient == VerifiedRecipient(p)
    IN /\ ~(/\ Truthy(verified_recipient) /\ Truthy(ExpectedMerchant(p))
            /\ Lower(verified_recipient) # Lower(ExpectedMerchant(p)))
       /\ ~(/\ Truthy(verified_recipient) /\ Truthy(ExpectedClient(p))
            /\ Lower(verified_recipient) = Lower(ExpectedClient(p)))

\* Lines 640-685 applied to the locals p: on to store_evidence, or raise.
CheckRecipient(p) ==
    IF RecipientChecksPass(p)
    THEN /\ pay' = [p EXCEPT !.settlement_address =
                        Or(p.actual_recipient_address, p.settlement_address)]
         /\ pay_pc' = "evidence"
         /\ UNCHANGED <<pay_result, settled>>
    ELSE PayReturn("error", p, NoEvidence)

\* Lines 522-592: the buyer side executes the transfer.  The SDK reports a
\* transaction hash and a settlement address, either of which may be
\* missing, and may have changed payment_request.settlement_address.
ExecutePayment ==
    /\ UNCHANGED <<shopVars, routeVars, agentVars, envVars>>
    /\ pay_pc = "transfer"
    /\ \E raised \in BOOLEAN, tx \in {NoAddr, "0xT"},
          reported \in {NoAddr} \cup ChecksumAddrs,
          request_after \in {pay.request_settlement, "0xC"} :
        IF raised
        THEN /\ tx = NoAddr /\ reported = NoAddr /\ request_after = pay.request_settlement
             /\ PayReturn("error", pay, NoEvidence)
             /\ UNCHANGED pay_log
        ELSE LET p == [pay EXCEPT !.request_settlement = request_after,
                                  !.transaction_hash = tx,
                                  !.settlement_address = Or(reported, request_after)]
             IN /\ PayLog("transfer", pay)
                /\ IF Truthy(tx)
                   THEN /\ pay' = p
                        /\ pay_pc' = "verify"
                        /\ UNCHANGED <<pay_result, settled>>
                   ELSE CheckRecipient(p)
    /\ UNCHANGED invocations

\* Lines 594-638: read the transaction from the ledger.  The recipient is
\* the `to` topic of the USDC Transfer event if there is one, else the
\* transaction's `to` field; a failing query leaves it None.
QueryLedger ==
    /\ UNCHANGED <<shopVars, routeVars, agentVars, envVars>>
    /\ pay_pc = "verify"
    /\ \E raised \in BOOLEAN, event_to \in {NoAddr} \cup LowerAddrs,
          tx_to \in {NoAddr, "0xB", "0xC"} :
        LET actual == IF raised THEN NoAddr
                      ELSE IF event_to # NoAddr THEN ToChecksum(event_to)
                      ELSE tx_to
        IN /\ raised => (event_to = NoAddr /\ tx_to = NoAddr)
           /\ event_to # NoAddr => tx_to = NoAddr
           /\ IF raised THEN UNCHANGED pay_log ELSE PayLog("ledger", pay)
           /\ CheckRecipient([pay EXCEPT !.actual_recipient_address = actual])
    /\ UNCHANGED invocations

\* Lines 687-738: store the evidence and return success; a raising
\* store_evidence is caught by the handler of lines 740-745.
StoreEvidence ==
    /\ UNCHANGED <<shopVars, routeVars, agentVars, envVars>>
    /\ pay_pc = "evidence"
    /\ \E ok \in BOOLEAN :
        IF ok
        THEN PayLog("evidence", pay) /\ PayReturn("success", pay, Evidence(pay))
        ELSE UNCHANGED pay_log /\ PayReturn("error", pay, NoEvidence)
    /\ UNCHANGED invocations

NextPay ==
    \/ InvokeX402
    \/ InvokeForDeal
    \/ CreatePaymentRequest
    \/ ExecutePayment
    \/ QueryLedger
    \/ StoreEvidence

\* ------------------------------------------------------------------ routes
MaxRequests == 2        \* route requests explored

\* What start_shopping returned to the route (lines 377-435 of
\* shopping_service.py): no offer at all, a selected deal, whose offer is
\* agreed and within budget, or the cheapest offer when none is agreed.
NegotiationResultsNoBudgetCheck(b) ==
    {[status |-> "no_offers", has_offer |-> FALSE, agreed |-> FALSE,
      deal_successful |-> FALSE, negotiated_price |-> None,
      negotiation_id |-> None, product_name |-> ""]}
    \cup
    {[status |-> IF ok THEN "offer_selected" ELSE "no_valid_offers",
      has_offer |-> TRUE, agreed |-> ok, deal_successful |-> ok,
      negotiated_price |-> price, negotiation_id |-> nid, product_name |-> product] :
        ok \in BOOLEAN, nid \in PayNegotiationIds, product \in ProductNames,
        price \in PayPrices \cup InitialPrices}

NegotiationResults(b) ==
    {[status |-> "no_offers", has_offer |-> FALSE, agreed |-> FALSE,
      deal_successful |-> FALSE, negotiated_price |-> None,
      negotiation_id |-> None, product_name |-> ""]}
    \cup
    {[status |-> IF ok THEN "offer_selected" ELSE "no_valid_offers",
      has_offer |-> TRUE, agreed |-> ok, deal_successful |-> ok,
      negotiated_price |-> price, negotiation_id |-> nid, product_name |-> product] :
        ok \in BOOLEAN, nid \in PayNegotiationIds, product \in ProductNames,
        price \in {q \in PayPrices : b = None \/ q <= b}}
    \cup
    \* the cheapest offer of a session without agreement may exceed the budget
    {[status |-> "no_valid_offers",
      has_offer |-> TRUE, agreed |-> FALSE, deal_successful |-> FALSE,
      negotiated_price |-> price, negotiation_id |-> nid, product_name |-> product] :
        nid \in PayNegotiationIds, product \in ProductNames, price \in InitialPrices}

NoRequest == [route |-> "none", dry_run |-> FALSE, budget |-> None,
              result |-> CHOOSE r \in NegotiationResults(None) : ~r.has_offer]

NoResponse == [route |-> "none", status |-> "none", payment_status |-> "none",
               would_pay |-> None, final_price |-> None]

InitRouteIdle ==
    /\ route_pc = "idle"
    /\ request = NoRequest
    /\ response = NoResponse
    /\ requests = 0

\* The response is sent and the request is over.
Respond(req, status, payment_status, would_pay) ==
    /\ response' = [route |-> req.route, status |-> status,
                    payment_status |-> payment_status, would_pay |-> would_pay,
                    final_price |-> req.result.negotiated_price]
    /\ request' = NoRequest
    /\ route_pc' = "idle"

\* The route calls execute_payment_for_deal and waits for its result.
CallForDeal(req) ==
    /\ ForDeal(req.dry_run, req.result.negotiation_id, req.result.product_name,
               req.result.negotiated_price)
    /\ request' = req
    /\ route_pc' = "paying"
    /\ UNCHANGED response

\* negotiate_and_pay, lines 362-387: after run_negotiations returned.
NegotiateAndPay ==
    /\ UNCHANGED <<shopVars, agentVars, envVars>>
    /\ route_pc = "idle" /\ pay_pc = "idle"
    /\ requests < MaxRequests
    /\ requests' = requests + 1
    /\ \E b \in Budgets, dry_run \in BOOLEAN :
       \E r \in NegotiationResults(b) :
        LET req == [route |-> "negotiate_and_pay", dry_run |-> dry_run,
                    budget |-> b, result |-> r]
        IN IF r.has_offer /\ r.agreed /\ r.deal_successful
           THEN \/ \* agents_ops.get_agent_by_id found no merchant agent
                   /\ Respond(req, r.status, "error", None)
                   /\ UNCHANGED payVars
                \/ CallForDeal(req)
           ELSE /\ Respond(req, r.status, "none", None)
                /\ UNCHANGED payVars

\* single_negotiation, lines 497-551: after start_shopping returned; its
\* budget is a required float.
SingleNegotiation ==
    /\ UNCHANGED <<shopVars, agentVars, envVars>>
    /\ route_pc = "idle" /\ pay_pc = "idle"
    /\ requests < MaxRequests
    /\ requests' = requests + 1
    /\ \E b \in Budgets \ {None}, dry_run \in BOOLEAN :
       \E r \in NegotiationResults(b) :
        LET req == [route |-> "single_negotiation", dry_run |-> dry_run,
                    budget |-> b, result |-> r]
        IN IF r.has_offer /\ r.agreed /\ ~dry_run
           THEN IF r.negotiated_price <= b
                THEN CallForDeal(req)
                ELSE /\ Respond(req, "negotiation_success_over_budget", "none", None)
                     /\ UNCHANGED payVars
           ELSE IF dry_run /\ r.has_offer /\ r.agreed
           THEN /\ Respond(req, "negotiation_success_dry_run", "dry_run", None)
                /\ UNCHANGED payVars
           ELSE /\ Respond(req, "negotiation_failed", "none", None)
                /\ UNCHANGED payVars

\* execute_payment_for_deal returned: negotiate_and_pay lines 389-400,
\* single_negotiation lines 534-539 and 551.
RouteRespond ==
    /\ UNCHANGED <<shopVars, agentVars, envVars>>
    /\ route_pc = "paying" /\ pay_pc = "idle"
    /\ IF request.route = "negotiate_and_pay"
       THEN Respond(request, request.result.status, pay_result.status,
                    pay_result.would_pay)
       ELSE Respond(request,
                    IF pay_result.status = "success" THEN "completed_with_payment"
                    ELSE "negotiation_success_payment_failed",
                    pay_result.status, pay_result.would_pay)
    /\ UNCHANGED <<payVars, requests>>

NextRoute ==
    \/ NegotiateAndPay
    \/ SingleNegotiation
    \/ RouteRespond
    \/ CreatePaymentRequest
    \/ ExecutePayment
    \/ QueryLedger
    \/ StoreEvidence

\* ------------------------------------------------- the agents on their own
\* Buyer offers, seller prices and decision-service prices of single calls.
AgentPrices == {600, 700, 800, 850, 900, 1000}

AgentResponses ==
    {[kind |-> "raise", price |-> Missing, accept |-> FALSE, reject |-> FALSE],
     [kind |-> "nojson", price |-> Missing, accept |-> FALSE, reject |-> FALSE]}
    \cup [kind : {"json"}, price : AgentPrices \cup {None, Missing},
          accept : BOOLEAN, reject : BOOLEAN]

\* The transcript after n full rounds in which the buyer offered 700 and the
\* seller answered q.
RECURSIVE History(_, _)
History(n, q) ==
    IF n = 0 THEN <<>>
    ELSE History(n - 1, q)
         \o <<[sender |-> "client", proposed_price |-> 700,
               accept |-> FALSE, reject |-> FALSE],
              [sender |-> "merchant", proposed_price |-> q,
               accept |-> FALSE, reject |-> FALSE]>>

AgentHistories == {<<>>} \cup {History(n, q) : n \in 1..2, q \in {800, 1000}}

NoCall == [agent |-> "none", resp |-> [kind |-> "none"], initial |-> 0,
           conv |-> <<>>, budget |-> None, offer |-> 0, pct |-> None]

InitAgentIdle ==
    /\ agent_call = NoCall
    /\ agent_reply = Proposal(None, FALSE, FALSE)

\* One call of ShoppingAgent.negotiate_with_merchant.
CallBuyer ==
    /\ \E resp \in AgentResponses, initial \in InitialPrices,
          conv \in AgentHistories, b \in Budgets :
        /\ agent_call' = [NoCall EXCEPT !.agent = "buyer", !.resp = resp,
                                        !.initial = initial, !.conv = conv,
                                        !.budget = b]
        /\ agent_reply' = NegotiateWithMerchant(resp, initial, conv, b)
    /\ UNCHANGED <<shopVars, payVars, routeVars, envVars>>

\* One call of MerchantAgent.negotiate_with_buyer.
CallSeller ==
    /\ \E resp \in AgentResponses, initial \in InitialPrices,
          offer \in AgentPrices, pct \in {None, 20} :
        /\ agent_call' = [NoCall EXCEPT !.agent = "seller", !.resp = resp,
                                        !.initial = initial, !.offer = offer,
                                        !.pct = pct]
        /\ agent_reply' = NegotiateWithBuyer(resp, initial, offer, pct)
    /\ UNCHANGED <<shopVars, payVars, routeVars, envVars>>

NextAgents ==
    \/ CallBuyer
    \/ CallSeller

NextShop ==
    \/ NoProducts
    \/ SkipProduct
    \/ StartNegotiation
    \/ BuyerTurn
    \/ SellerTurn
    \/ AbandonNegotiation
    \/ Finalize
    \/ SelectBestOffer

vars == <<shopVars, payVars, routeVars, agentVars, envVars>>

\* A shopping session (start_shopping); no settlement runs.
Init == InitShop /\ InitPayIdle /\ InitRouteIdle /\ InitAgentIdle /\ InitEnv

Next == NextShop

Spec == Init /\ [][Next]_vars

\* Settlement invocations; no shopping session runs.
InitShopIdle ==
    /\ InitShop
    /\ budget = None
    /\ max_rounds = 1
    /\ num_products = 0

InitSettle == InitShopIdle /\ InitPayIdle /\ InitRouteIdle /\ InitAgentIdle /\ InitEnv

SpecPay == InitSettle /\ [][NextPay]_vars

\* Requests to the two routes, each settling its deal; no shopping session
\* is stepped through, its result is an input.
SpecRoute == InitSettle /\ [][NextRoute]_vars

\* Single calls of the two decision agents, for every answer of the decision
\* service.
SpecAgents == InitSettle /\ [][NextAgents]_vars

\* The round trip of one product priced 1000 whose seller may concede 20%,
\* for a buyer with budget 850 and max_rounds 5: the buyer's decision opens
\* at 900, the seller's counters at 850 without accepting, the buyer's
\* accepts 850.
RoundTripScript ==
    <<[kind |-> "json", price |-> 900, accept |-> FALSE, reject |-> FALSE],
      [kind |-> "json", price |-> 850, accept |-> FALSE, reject |-> FALSE],
      [kind |-> "json", price |-> 850, accept |-> TRUE, reject |-> FALSE]>>

\* start_shopping called for the round trip; the decision service's first
\* answers follow the script, as far as it is fixed.
InitScenario ==
    /\ InitPayIdle /\ InitRouteIdle /\ InitAgentIdle
    /\ catalogue = {[price |-> 1000, negotiation_percentage |-> 20]}
    /\ script \in {SubSeq(RoundTripScript, 1, n) : n \in 0..Len(RoundTripScript)}
    /\ budget = 850
    /\ max_rounds = 5
    /\ num_products \in 0..1
    /\ pc = "start"
    /\ product_idx = 1
    /\ initial_price = 0
    /\ negotiation_percentage = None
    /\ negotiation_id = None
    /\ round_num = 0
    /\ conversation = <<>>
    /\ current_price = 0
    /\ client_price = 0
    /\ agreed = FALSE
    /\ offers = <<>>
    /\ negotiations = [i \in 1..MaxProducts |-> NoRecord]
    /\ chat_history = <<>>
    /\ result = Running
    /\ calls = 0
    /\ failures = 0
    /\ decision = "none"

SpecScenario == InitScenario /\ [][Next]_vars

\* ================================================================ claims
\* Offers whose negotiation record exists.
Recorded(o) == o.negotiation_id # None

\* C1: with a budget B set, an offer returned with agreed = true has
\* negotiated_price <= B, and a negotiation record whose persisted status is
\* 'agreed' has final_price <= B.
C1_AgreedWithinBudget ==
    budget # None =>
        /\ \A i \in 1..Len(offers) :
              offers[i].agreed => offers[i].negotiated_price <= budget
        /\ \A id \in DOMAIN negotiations :
              negotiations[id].status = "agreed" =>
                  negotiations[id].final_price <= budget

\* A session with a budget in which the seller accepted in the last round at
\* a price within budget, the offer is agreed and persisted as 'agreed'.
C1_Witness ==
    /\ budget # None
    /\ \E i \in 1..Len(offers) :
          /\ offers[i].agreed
          /\ Last(offers[i].conversation).sender = "merchant"
          /\ Recorded(offers[i])
          /\ negotiations[offers[i].negotiation_id].status = "agreed"

\* The ledger query of the returned result read a recipient.
LedgerVerified(r) == Truthy(r.actual_recipient_address)

\* Case-insensitive address equality, as the code compares addresses.
SameAddress(a, b) == Lower(a) = Lower(b)

\* C2: if the recipient read from the ledger equals the buyer's own address,
\* the settlement result is never 'success', whatever the transfer call
\* reported.
C2_RecipientIsBuyerNeverSuccess ==
    (/\ LedgerVerified(pay_result)
     /\ Truthy(pay_result.client_address)
     /\ SameAddress(pay_result.actual_recipient_address, pay_result.client_address))
        => pay_result.status # "success"

\* The ledger recipient is the buyer's address in another spelling, and it
\* is also the address given for the seller, so that only the comparison
\* with the buyer's address stands between the transfer and 'success'.
C2_Witness ==
    /\ pay_result.status = "error"
    /\ LedgerVerified(pay_result)
    /\ Truthy(pay_result.client_address)
    /\ SameAddress(pay_result.actual_recipient_address, pay_result.client_address)
    /\ pay_result.actual_recipient_address # pay_result.client_address
    /\ SameAddress(pay_result.actual_recipient_address, pay_result.merchant_address)

\* The settlement was given an address for the seller (and for the buyer).
SellerKnown(r) == Truthy(r.merchant_address)
BuyerKnown(r) == Truthy(r.client_address)

\* C3: a 'success' result is returned only after the ledger query yielded a
\* recipient equal to the expected seller address, and the reported
\* settlement_address is that ledger-verified address; without a transaction
\* hash or with a failing ledger query there is no 'success'.  Stated for
\* the settlements that know both parties' addresses.
C3_SuccessOnlyLedgerVerified ==
    (pay_result.status = "success" /\ SellerKnown(pay_result) /\ BuyerKnown(pay_result)) =>
        /\ LedgerVerified(pay_result)
        /\ SameAddress(pay_result.actual_recipient_address, pay_result.merchant_address)
        /\ pay_result.settlement_address = pay_result.actual_recipient_address

C5_AtMostOnce ==
    (/\ pay_pc \in {"transfer", "verify", "evidence"}
     /\ Truthy(ExpectedMerchant(pay)) /\ Truthy(ExpectedClient(pay)))
        => pay.negotiation_id \notin settled

\* ------------------------------------------------------------ negotiation
\* The transcripts of the session: the one being negotiated and those
\* stored in offers.
Transcripts == {conversation} \cup {offers[i].conversation : i \in 1..Len(offers)}

\* Number of Proposals of one sender in a transcript.
ProposalsOf(t, sender) == Cardinality({i \in 1..Len(t) : t[i].sender = sender})

\* Persisted chat messages of one negotiation, in order.
MessagesOf(h, id) == SelectSeq(h, LAMBDA m : m.negotiation_id = id)

\* C6: with a budget B set, every buyer Proposal appended to the transcript,
\* and every buyer message passed to create_chat_message, has
\* proposed_price <= B, on every path of negotiate_with_merchant.
C6_BuyerProposalsWithinBudget ==
    budget # None =>
        /\ \A t \in Transcripts : \A i \in 1..Len(t) :
              t[i].sender = "client" => t[i].proposed_price <= budget
        /\ \A i \in 1..Len(chat_history) :
              chat_history[i].sender = "client" =>
                  chat_history[i].proposed_price <= budget

\* A seller Proposal that accepts at a price above the budget.
SellerAcceptAboveBudget(e) ==
    /\ budget # None
    /\ e.sender = "merchant"
    /\ e.accept
    /\ e.proposed_price > budget

\* C7: when the seller accepts at a price above the budget, the negotiation
\* does not end agreed on that round: it goes on to the buyer's next turn
\* when rounds remain and ends not agreed after the last round; no offer is
\* agreed with the over-budget seller price as its final price.
C7_SellerAcceptAboveBudget ==
    /\ (conversation # <<>> /\ SellerAcceptAboveBudget(Last(conversation))) =>
          /\ ~agreed
          /\ ~Last(conversation).reject =>
                \/ pc = "buyer" /\ round_num < max_rounds
                \/ pc = "final" /\ round_num = max_rounds - 1
    /\ \A k \in 1..Len(offers) :
          LET o == offers[k]
          IN \A i \in 1..Len(o.conversation) :
                SellerAcceptAboveBudget(o.conversation[i]) =>
                    /\ ~(o.agreed /\ o.negotiated_price = o.conversation[i].proposed_price)
                    /\ i = Len(o.conversation) => ~o.agreed
                    /\ (i = Len(o.conversation) /\ Recorded(o)) =>
                          negotiations[o.negotiation_id].status # "agreed"

\* In a two-round negotiation the seller accepted above the budget in the
\* first round, the buyer was invoked again, the seller accepted above the
\* budget in the last round too, and the negotiation was stored as failed.
C7_Witness ==
    \E k \in 1..Len(offers) :
        LET o == offers[k]
        IN /\ Len(o.conversation) = 4
           /\ SellerAcceptAboveBudget(o.conversation[2])
           /\ SellerAcceptAboveBudget(o.conversation[4])
           /\ ~o.conversation[4].reject
           /\ ~o.agreed
           /\ Recorded(o)
           /\ negotiations[o.negotiation_id].status = "failed"

\* A Proposal has a price; a response without one is not a Proposal.
IsProposal(e) == e.proposed_price # None

Decided(id) == negotiations[id].status \in {"agreed", "rejected", "failed"}

\* C9: once a negotiation's outcome is decided, no Proposal is appended to
\* its transcript, no chat message is persisted for it and its status never
\* changes.
C9_TerminalMonotonicity ==
    [][/\ \A id \in DOMAIN negotiations :
             Decided(id) =>
                 /\ negotiations'[id] = negotiations[id]
                 /\ MessagesOf(chat_history', id) = MessagesOf(chat_history, id)
                 /\ negotiation_id' # id
       /\ \A k \in 1..Len(offers) :
             /\ Len(offers') >= k
             /\ offers'[k] = offers[k]]_vars

\* One negotiation is decided and stored while the next one has exchanged
\* Proposals and persisted chat messages of its own.
C9_Witness ==
    \E id \in DOMAIN negotiations :
        /\ Decided(id)
        /\ negotiation_id \notin {None, id}
        /\ Len(conversation) >= 2
        /\ MessagesOf(chat_history, id) # <<>>
        /\ MessagesOf(chat_history, negotiation_id) # <<>>

\* C10: a negotiation executes at most max_rounds rounds: a transcript holds
\* at most max_rounds buyer Proposals and at most max_rounds seller
\* Proposals, and every persisted round_number is in 1..max_rounds.
C10_RoundBound ==
    /\ \A t \in Transcripts :
          /\ ProposalsOf(t, "client") <= max_rounds
          /\ ProposalsOf(t, "merchant") <= max_rounds
    /\ \A i \in 1..Len(chat_history) :
          chat_history[i].round_number \in 1..max_rounds
    /\ round_num < max_rounds

\* A negotiation has run all of its two rounds and its last message was
\* persisted with round_number = max_rounds.
C10_Witness ==
    /\ max_rounds = MaxRounds
    /\ \E k \in 1..Len(offers) :
          /\ ProposalsOf(offers[k].conversation, "client") = max_rounds
          /\ ProposalsOf(offers[k].conversation, "merchant") = max_rounds
          /\ Recorded(offers[k])
          /\ \E i \in 1..Len(chat_history) :
                /\ chat_history[i].negotiation_id = offers[k].negotiation_id
                /\ chat_history[i].sender = "merchant"
                /\ chat_history[i].round_number = max_rounds

\* ------------------------------------------------------------- settlement
\* The transfer is called only right after an intent of the same invocation
\* that embeds the expected seller address, and the call logged after a
\* mismatching intent is a later invocation's intent.
TransfersFollowMatchingIntents ==
    \A i \in 1..Len(pay_log) :
        /\ (pay_log[i].op = "intent" /\ ~pay_log[i].to_merchant /\ i < Len(pay_log)) =>
              pay_log[i + 1].op = "intent"
        /\ pay_log[i].op = "transfer" =>
              /\ i > 1
              /\ pay_log[i - 1].op = "intent"
              /\ pay_log[i - 1].to_merchant
              /\ pay_log[i - 1].negotiation_id = pay_log[i].negotiation_id

\* C11: if the payment intent created by the seller side embeds a settlement
\* address different from the expected seller address, execute_x402_payment
\* returns an error result at that step, and the buyer-side transfer is
\* never called for that intent.
C11_MismatchedIntentNoTransfer ==
    [][/\ (/\ Len(pay_log') = Len(pay_log) + 1
           /\ Last(pay_log').op = "intent"
           /\ ~Last(pay_log').to_merchant) =>
              (pay_pc' = "idle" /\ pay_result'.status = "error")
       /\ TransfersFollowMatchingIntents']_vars

\* A settlement that knows the seller's address got an intent embedding
\* another address and returned an error right after creating it.
C11_Witness ==
    /\ pay_pc = "idle"
    /\ pay_result.status = "error"
    /\ SellerKnown(pay_result)
    /\ pay_log # <<>>
    /\ Last(pay_log).op = "intent"
    /\ ~Last(pay_log).to_merchant

\* The buyer's and the seller's addresses are both known and are the same
\* account.
BuyerIsSeller(client, merchant) ==
    Truthy(client) /\ Truthy(merchant) /\ SameAddress(client, merchant)

\* C12: if the buyer's address equals the seller's address, the settlement
\* fails as a precondition violation: no payment intent is created, no
\* transfer is executed and the result is not success.
C12_BuyerIsSellerFailsEarly ==
    /\ pay_pc \in {"transfer", "verify", "evidence"} =>
          ~BuyerIsSeller(ExpectedClient(pay), ExpectedMerchant(pay))
    /\ pay_result.status = "success" =>
          ~BuyerIsSeller(pay_result.client_address, pay_result.merchant_address)

\* This step made the external call op.
Called(op) ==
    /\ Len(pay_log') = Len(pay_log) + 1
    /\ Last(pay_log').op = op

\* C13: if the seller's settlement address is absent or empty, the
\* settlement fails before any attempt: no payment intent is created and no
\* transfer is executed, on every entry.  Stated for the invocations that
\* have no seller address at all, neither given nor read from the seller's
\* wallet file.
C13_NoSellerAddressNoAttempt ==
    [][(Called("intent") \/ Called("transfer")) => Truthy(ExpectedMerchant(pay))]_vars

\* The statuses a route answers for a deal that was paid: single_negotiation
\* answers "completed_with_payment", negotiate_and_pay answers the status of
\* the negotiation, which is "offer_selected" whenever a payment is attempted.
SuccessfulStatuses == {"completed_with_payment", "offer_selected"}

\* C14: a request whose settlement ended in an error (payment result with
\* status "error", as execute_payment_for_deal returns it on every fatal
\* condition) is never answered with a successful status by either route.
C14_FatalNeverAnsweredAsSuccess ==
    response.payment_status = "error" => response.status \notin SuccessfulStatuses


\* A step that serves, or answers, a request made in dry_run mode.
DryRunStep ==
    \/ /\ requests' = requests + 1
       /\ IF route_pc' = "paying" THEN request'.dry_run
          ELSE response'.payment_status = "dry_run"
    \/ route_pc = "paying" /\ request.dry_run

\* C15: a dry_run request creates no intent, executes no transfer, queries
\* no ledger and stores no evidence (the settlement log does not grow, no
\* settlement is left under way), and the payment result it is answered with
\* has status "dry_run" and carries the amount that would have been paid,
\* i.e. the negotiated price, on both routes.
C15_DryRunSkipsSettlement ==
    [][DryRunStep =>
        /\ UNCHANGED pay_log
        /\ pay_pc' = "idle"
        /\ route_pc' = "idle" =>
            /\ response'.payment_status # "success"
            /\ response'.payment_status = "dry_run" =>
                    response'.would_pay = response'.final_price]_vars


\* The settlement's recipient was read from the ledger and is the seller.
VerifiedToMerchant(p) ==
    /\ p.actual_recipient_address # NoAddr
    /\ SameAddress(p.actual_recipient_address, ExpectedMerchant(p))

\* C16: store_evidence is called only after the recipient verification
\* passed (the ledger's recipient is the seller) and only by a settlement
\* that then returns success; a settlement returns success only by storing
\* its evidence, and the evidence of every success result holds the
\* invocation's negotiation id, cart id, product and price, the two parties'
\* addresses, the transaction hash and the verified recipient.
C16_EvidenceExactlyOnSuccess ==
    [][/\ Called("evidence") => VerifiedToMerchant(pay)
       /\ Called("evidence") <=> (pay_pc # "idle" /\ pay_pc' = "idle"
                                  /\ pay_result'.status = "success")
       /\ Called("evidence") =>
            LET e == pay_result'.evidence
            IN /\ e.negotiation_id = pay.negotiation_id
               /\ e.cart_id = CartId(pay.negotiation_id)
               /\ e.product_name = pay.product_name /\ e.product_name \in ProductNames
               /\ e.final_price = pay.final_price /\ e.final_price \in PayPrices
               /\ SameAddress(e.client_address, ExpectedClient(pay))
               /\ SameAddress(e.merchant_address, ExpectedMerchant(pay))
               /\ e.transaction_hash = pay.transaction_hash
               /\ Truthy(e.transaction_hash)
               /\ e.settlement_address = pay.actual_recipient_address]_vars


\* The offers that are agreed within the budget, by position in offers.
AgreedWithin ==
    {i \in 1..Len(offers) :
        /\ offers[i].agreed
        /\ (budget = None \/ offers[i].negotiated_price <= budget)}

\* The candidates of the selection: the offers agreed within the budget, or
\* every offer when there is none.
Candidates == IF AgreedWithin # {} THEN AgreedWithin ELSE 1..Len(offers)

\* The candidates of minimum negotiated price.
Cheapest ==
    {i \in Candidates :
        \A k \in Candidates : offers[i].negotiated_price <= offers[k].negotiated_price}

\* start_shopping returned a best offer.
Selected == pc = "done" /\ result.status \in {"offer_selected", "no_valid_offers"}

\* C17: when at least one offer is agreed within the budget, the best offer
\* returned is one of minimum negotiated price among the offers agreed within
\* the budget, whatever select_best_offer did.
C17_BestIsCheapestAgreed ==
    (Selected /\ AgreedWithin # {}) =>
        \E i \in Cheapest : result.best_offer = offers[i]

\* C18: when no offer is agreed within the budget, the best offer returned
\* is one of minimum negotiated price over all offers, deal_successful is
\* false and the status is "no_valid_offers".
C18_FallbackIsCheapestOverall ==
    (Selected /\ AgreedWithin = {}) =>
        /\ \E i \in Cheapest : result.best_offer = offers[i]
        /\ ~result.deal_successful
        /\ result.status = "no_valid_offers"

\* C19: a best offer of minimum price among the candidates is the first
\* candidate of that price in input order.
C19_FirstOfTheCheapestWins ==
    (Selected /\ \E i \in Cheapest : result.best_offer = offers[i]) =>
        \E i \in Cheapest :
            /\ result.best_offer = offers[i]
            /\ \A k \in Cheapest : i <= k


\* The step is a buyer turn whose Proposal, with a price, accepts without
\* rejecting while the seller-side reference price is within the budget.
BuyerAccepts ==
    /\ pc = "buyer"
    /\ Len(conversation') = Len(conversation) + 1
    /\ LET e == Last(conversation')
       IN /\ e.sender = "client"
          /\ e.proposed_price # None
          /\ e.accept /\ ~e.reject
    /\ (budget = None \/ current_price <= budget)

BuyerTurnOverBudget ==
    /\ pc = "buyer"
    /\ Len(conversation') = Len(conversation) + 1
    /\ budget # None
    /\ current_price > budget

SellerAcceptsWithinBudget ==
    /\ pc = "seller"
    /\ Len(conversation') = Len(conversation) + 1
    /\ LET e == Last(conversation')
       IN /\ e.sender = "merchant"
          /\ e.proposed_price # None
          /\ e.accept /\ ~e.reject
          /\ (budget = None \/ e.proposed_price <= budget)

\* The step closing a negotiation stores an offer with the price and the
\* agreement the round loop ended with.
ClosedAsLeft ==
    pc = "final" =>
        /\ Len(offers') = Len(offers) + 1
        /\ Last(offers').negotiated_price = current_price
        /\ Last(offers').agreed = agreed

\* C22: a seller acceptance (reject false) at a price within the budget ends
\* the negotiation agreed at the seller's price when it comes in the last
\* round (round_num = max_rounds - 1); in an earlier round it records the
\* price, agrees nothing yet, and the buyer is invoked in the next round.
C22_SellerAcceptWithinBudget ==
    [][/\ SellerAcceptsWithinBudget =>
            /\ current_price' = Last(conversation').proposed_price
            /\ IF round_num = max_rounds - 1
               THEN pc' = "final" /\ agreed'
               ELSE pc' = "buyer" /\ round_num' = round_num + 1 /\ ~agreed'
       /\ ClosedAsLeft]_vars

\* A last-round seller acceptance within a set budget has ended the loop.
C22_Witness ==
    /\ pc = "final"
    /\ agreed
    /\ budget # None
    /\ round_num = max_rounds - 1
    /\ conversation # <<>>
    /\ Last(conversation).sender = "merchant"
    /\ Last(conversation).accept /\ ~Last(conversation).reject
    /\ current_price = Last(conversation).proposed_price


\* One of the last two entries of the transcript t carries reject = true.
RejectInLastTwo(t) ==
    \E i \in 1..Len(t) : i > Len(t) - 2 /\ t[i].reject

\* The step closes a negotiation and writes its final status.
WritesFinalStatus ==
    /\ pc = "final"
    /\ negotiation_id # None
    /\ negotiations'[negotiation_id] # negotiations[negotiation_id]

\* C23: the final status written for a negotiation that ends not agreed is
\* "rejected" if one of the last two transcript entries carries reject =
\* true and "failed" otherwise (so also when max_rounds are exhausted with
\* no accept and no reject); a negotiation that ends agreed gets "agreed".
C23_FinalStatusDerivation ==
    [][WritesFinalStatus =>
        LET r == negotiations'[negotiation_id]
        IN /\ r.agreed => r.status = "agreed"
           /\ ~r.agreed =>
                r.status = IF RejectInLastTwo(conversation) THEN "rejected"
                           ELSE "failed"]_vars

\* A negotiation that went through all its rounds with no accept and no
\* reject is recorded as failed.
C23_Witness ==
    \E id \in 1..Len(offers) :
        /\ offers[id].negotiation_id # None
        /\ negotiations[offers[id].negotiation_id].status = "failed"
        /\ Len(offers[id].conversation) = 2 * max_rounds
        /\ \A i \in 1..Len(offers[id].conversation) :
              /\ ~offers[id].conversation[i].accept
              /\ ~offers[id].conversation[i].reject


\* The round loop never ends marked agreed at a price above the budget: the
\* buyer's accepted price is capped by negotiate_with_merchant and a seller
\* acceptance is agreed only within the budget, so the post-loop budget
\* check of lines 322-329 never fires.
StaleAcceptanceUnreachable ==
    (pc = "final" /\ agreed) => (budget = None \/ current_price <= budget)


\* The in-memory outcome of a buyer turn that appended the Proposal e: it
\* depends on e, the budget and the loop's locals only.
BuyerTurnOutcome(e) ==
    IF e.proposed_price = None
    THEN pc' = "abandon" /\ UNCHANGED <<agreed, current_price, round_num>>
    ELSE IF ~e.reject /\ e.accept /\ (budget = None \/ current_price <= budget)
    THEN pc' = "final" /\ agreed' /\ current_price' = e.proposed_price
         /\ UNCHANGED round_num
    ELSE /\ pc' = IF e.reject THEN "final" ELSE "seller"
         /\ ~agreed' /\ UNCHANGED <<current_price, round_num>>

\* The same for a seller turn.
SellerTurnOutcome(e) ==
    IF e.proposed_price = None
    THEN pc' = "abandon" /\ UNCHANGED <<agreed, current_price, round_num>>
    ELSE IF e.reject
    THEN pc' = "final" /\ ~agreed' /\ UNCHANGED <<current_price, round_num>>
    ELSE LET last == round_num = max_rounds - 1
         IN /\ current_price' = e.proposed_price
            /\ pc' = IF last THEN "final" ELSE "buyer"
            /\ round_num' = IF last THEN round_num ELSE round_num + 1
            /\ agreed' = IF e.accept
                         THEN last /\ (budget = None \/ e.proposed_price <= budget)
                         ELSE agreed

\* C25: what a negotiation computes in memory does not depend on the
\* persistence calls: the round loop starts whether or not create_negotiation
\* succeeded, each turn's effect on the loop's locals is the one determined
\* by the appended Proposal alone, whether or not create_chat_message
\* succeeded, and the offer stored at the end has the loop's agreement
\* (within budget), price and transcript, whether or not update_negotiation
\* succeeded.
C25_PersistenceDoesNotInfluenceOffer ==
    [][/\ (pc = "start" /\ pc' = "buyer") =>
            /\ conversation' = <<>> /\ ~agreed' /\ round_num' = 0
            /\ current_price' = initial_price'
       /\ (pc \in {"buyer", "seller"} /\ conversation' # conversation) =>
            /\ Len(conversation') = Len(conversation) + 1
            /\ SubSeq(conversation', 1, Len(conversation)) = conversation
            /\ IF pc = "buyer" THEN BuyerTurnOutcome(Last(conversation'))
               ELSE SellerTurnOutcome(Last(conversation'))
       /\ pc = "final" =>
            /\ Len(offers') = Len(offers) + 1
            /\ SubSeq(offers', 1, Len(offers)) = offers
            /\ Last(offers').agreed =
                  (agreed /\ (budget = None \/ current_price <= budget))
            /\ Last(offers').negotiated_price = current_price
            /\ Last(offers').conversation = conversation]_vars

\* An agreed offer was returned for a negotiation whose record could not be
\* created, so that none of its messages and no final status was persisted.
C25_Witness ==
    /\ pc = "done"
    /\ failures > 0
    /\ \E k \in 1..Len(offers) :
        /\ offers[k].agreed
        /\ offers[k].negotiation_id = None
        /\ result.best_offer = offers[k]


\* The step is a turn in which the decision service's call raised.
TurnWithServiceFailure ==
    /\ pc \in {"buyer", "seller"}
    /\ calls' = calls + 1
    /\ decision' = "raise"

\* C26: a turn in which the decision service's call raised appends a
\* Proposal with a price and without reject to the transcript (the agent's
\* fallback; the buyer's does not accept either) and the round loop goes on:
\* after the buyer's turn the seller is invoked in the same round, and after
\* the seller's turn the loop is left only if that was the last round.
C26_ServiceFailureDoesNotEndNegotiation ==
    [][TurnWithServiceFailure =>
        /\ Len(conversation') = Len(conversation) + 1
        /\ LET e == Last(conversation')
           IN /\ e.sender = IF pc = "buyer" THEN "client" ELSE "merchant"
              /\ e.proposed_price # None
              /\ ~e.reject
              /\ pc = "buyer" => ~e.accept
        /\ IF pc = "buyer" THEN pc' = "seller"
           ELSE IF round_num = max_rounds - 1 THEN pc' = "final"
           ELSE pc' = "buyer" /\ round_num' = round_num + 1]_vars

\* The seller is about to answer the fallback Proposal of a buyer turn in
\* which the decision service's call raised.
C26_Witness ==
    /\ pc = "seller"
    /\ decision = "raise"
    /\ conversation # <<>>
    /\ Last(conversation).sender = "client"
    /\ Last(conversation).proposed_price = initial_price


\* A single call of negotiate_with_merchant in which the decision service
\* was unavailable or its answer held no parsable JSON object.
BuyerCallFellBack ==
    /\ agent_call.agent = "buyer"
    /\ agent_call.resp.kind \in {"raise", "nojson"}

\* C27: whenever the decision service is unavailable or its output fails to
\* parse, negotiate_with_merchant returns 0.9 x the initial price, clamped to
\* the budget when one is set, with accept = false and reject = false.
C27_BuyerFallbackIsNinetyPercentClamped ==
    BuyerCallFellBack =>
        agent_reply =
            Proposal(IF agent_call.budget # None
                     THEN Min2(NinetyPercent(agent_call.initial), agent_call.budget)
                     ELSE NinetyPercent(agent_call.initial),
                     FALSE, FALSE)

\* A single call of negotiate_with_buyer of a seller with a discount ceiling
\* in which the decision service was unavailable or its answer did not parse.
SellerCallFellBack ==
    /\ agent_call.agent = "seller"
    /\ agent_call.pct # None
    /\ agent_call.resp.kind \in {"raise", "nojson"}

\* C28: with a ceiling c and minimum m = initial x (1 - c/100), the seller's
\* fallback accepts an offer >= m only when the requested discount is at most
\* 70% of c and otherwise counters at max(m, (initial + offer)/2) without
\* accepting, and it rejects an offer more than 20% below m.
C28_SellerFallbackRule ==
    SellerCallFellBack =>
        LET initial == agent_call.initial
            offer == agent_call.offer
            m == MinPrice(initial, agent_call.pct)
        IN /\ offer >= m =>
                IF DiscountAtMost(initial, offer, agent_call.pct * 7)
                THEN agent_reply = Proposal(offer, TRUE, FALSE)
                ELSE agent_reply = Proposal(Max2(m, Midpoint(initial, offer)), FALSE, FALSE)
           /\ offer * 10 < m * 8 => agent_reply.reject /\ ~agent_reply.accept

\* A single call of negotiate_with_merchant with a budget in which the
\* decision service answered a proposed_price above the budget.
BuyerProposedOverBudget ==
    /\ agent_call.agent = "buyer"
    /\ agent_call.budget # None
    /\ agent_call.resp.kind = "json"
    /\ agent_call.resp.price \notin {None, Missing}
    /\ agent_call.resp.price > agent_call.budget

\* C30: whenever a budget is set and the decision service returns a
\* proposed_price above it, the buyer's Proposal has proposed_price = budget
\* and accept = false.
C30_BuyerClampToBudget ==
    BuyerProposedOverBudget =>
        /\ agent_reply.proposed_price = agent_call.budget
        /\ ~agent_reply.accept


\* C29: a negotiation over a product with a discount ceiling c that leaves
\* the round loop agreed has a final price of at least
\* initial_price x (1 - c/100), whichever side's acceptance closed it.
C29_AgreedNotBelowSellerMinimum ==
    (pc = "final" /\ agreed /\ negotiation_percentage # None) =>
        current_price >= MinPrice(initial_price, negotiation_percentage)


\* C31: when start_shopping has returned and no persistence call failed, no
\* negotiation record is left 'in_progress': every record that was created
\* has a terminal status and an offer was produced for it.
C31_NoRecordLeftInProgress ==
    (pc = "done" /\ failures = 0) =>
        \A id \in 1..MaxProducts :
            negotiations[id].status # "none" =>
                /\ negotiations[id].status \in {"agreed", "rejected", "failed"}
                /\ \E k \in 1..Len(offers) : offers[k].negotiation_id = id


\* C32: within one negotiation the persisted chat messages are in round
\* order (round_number never decreases and within a round the buyer's
\* message comes before the seller's), and when an agent is about to be
\* invoked every Proposal of the transcript so far has been persisted (as far
\* as no persistence call failed).
C32_ChatMessagesInRoundOrder ==
    /\ \A i, j \in 1..Len(chat_history) :
          (i < j /\ chat_history[i].negotiation_id = chat_history[j].negotiation_id) =>
              \/ chat_history[i].round_number < chat_history[j].round_number
              \/ /\ chat_history[i].round_number = chat_history[j].round_number
                 /\ chat_history[i].sender = "client"
                 /\ chat_history[j].sender = "merchant"
    /\ (pc \in {"buyer", "seller"} /\ negotiation_id # None /\ failures = 0) =>
          LET ms == MessagesOf(chat_history, negotiation_id)
          IN /\ Len(ms) = Len(conversation)
             /\ \A k \in 1..Len(ms) :
                   /\ ms[k].sender = conversation[k].sender
                   /\ ms[k].proposed_price = conversation[k].proposed_price
                   /\ ms[k].accept = conversation[k].accept

\* The seller's message of a second round has been persisted behind the
\* three messages before it.
C32_Witness ==
    /\ Len(chat_history) >= 4
    /\ \A k \in 1..4 : chat_history[k].negotiation_id = chat_history[1].negotiation_id
    /\ chat_history[3].round_number = 2
    /\ chat_history[4].round_number = 2
    /\ chat_history[4].sender = "merchant"


\* The step writes to the chat history or to the negotiations table.
WritesOnlyOwnRecords ==
    /\ chat_history' # chat_history =>
          /\ negotiation_id # None
          /\ negotiations[negotiation_id].status = "in_progress"
          /\ \E m \in [negotiation_id : {negotiation_id},
                       round_number : {round_num + 1},
                       sender : {"client", "merchant"},
                       proposed_price : {Last(conversation').proposed_price},
                       accept : BOOLEAN] :
                chat_history' = Append(chat_history, m)
    /\ \A id \in 1..MaxProducts :
          negotiations'[id] # negotiations[id] =>
              \/ /\ pc = "start"
                 /\ negotiations[id].status = "none"
                 /\ negotiations'[id].status = "in_progress"
                 /\ negotiation_id' = id
              \/ /\ pc = "final"
                 /\ negotiation_id = id
                 /\ negotiations[id].status = "in_progress"
                 /\ negotiations'[id].status \in {"agreed", "rejected", "failed"}
                 /\ negotiation_id' = None

\* The persisted messages of one negotiation are contiguous.
ChatNotInterleaved(h) ==
    \A i, j, k \in 1..Len(h) :
        (i < j /\ j < k /\ h[i].negotiation_id = h[k].negotiation_id) =>
            h[j].negotiation_id = h[i].negotiation_id

\* C33: each negotiation owns its transcript.  The transcript starts empty
\* with the negotiation and holds one Proposal per turn of that negotiation;
\* every chat message and status update of a step carries the id of the
\* negotiation being run, whose record is 'in_progress'; a record is created
\* under a fresh id only, so the writes of one negotiation are over before
\* the next one's begin and the persisted messages are never interleaved.
C33_NegotiationOwnsItsTranscript ==
    [][/\ WritesOnlyOwnRecords
       /\ ChatNotInterleaved(chat_history')
       /\ (pc = "start" /\ pc' = "buyer") => conversation' = <<>>
       /\ pc' \in {"buyer", "seller"} =>
             Len(conversation') = 2 * round_num' + (IF pc' = "seller" THEN 1 ELSE 0)]_vars

\* Two negotiations of one session have both been finalized and both have
\* persisted chat messages.
C33_Witness ==
    /\ negotiations[1].status \in {"agreed", "rejected", "failed"}
    /\ negotiations[2].status \in {"agreed", "rejected", "failed"}
    /\ \E i, j \in 1..Len(chat_history) :
          /\ i < j
          /\ chat_history[i].negotiation_id = 1
          /\ chat_history[j].negotiation_id = 2


\* Two consecutive calls of negotiate_with_merchant that both fell back and
\* were given the same initial price, budget and transcript.
SameFallbackInputsTwice ==
    /\ BuyerCallFellBack
    /\ BuyerCallFellBack'
    /\ agent_call'.initial = agent_call.initial
    /\ agent_call'.budget = agent_call.budget
    /\ agent_call'.conv = agent_call.conv

\* C34: two invocations of the buyer's fallback with identical initial
\* price, budget and transcript return identical Proposals.
C34_BuyerFallbackDeterministic ==
    [][SameFallbackInputsTwice => agent_reply' = agent_reply]_vars


\* C39: an offer with agreed = true has a transcript whose last Proposal
\* has accept = true and reject = false and names the offer's negotiated
\* price.
C39_AgreedOfferEndsWithAcceptance ==
    \A k \in 1..Len(offers) :
        offers[k].agreed =>
            /\ offers[k].conversation # <<>>
            /\ LET e == Last(offers[k].conversation)
               IN /\ e.accept
                  /\ ~e.reject
                  /\ e.proposed_price = offers[k].negotiated_price

\* Two agreed offers, one closed by the buyer's and one by the seller's
\* acceptance.
C39_Witness ==
    /\ Len(offers) = 2
    /\ offers[1].agreed
    /\ offers[2].agreed
    /\ Last(offers[1].conversation).sender = "client"
    /\ Last(offers[2].conversation).sender = "merchant"


\* The price the seller last proposed in transcript t, or the initial price
\* if the seller has not spoken yet.
RECURSIVE SellerLastPrice(_, _)
SellerLastPrice(t, initial) ==
    IF t = <<>> THEN initial
    ELSE IF Last(t).sender = "merchant" THEN Last(t).proposed_price
    ELSE SellerLastPrice(SubSeq(t, 1, Len(t) - 1), initial)

\* C40: an offer agreed through the buyer's acceptance has as its price the
\* price the seller last proposed, or the initial price if the seller has
\* not spoken.
C40_BuyerClosesAtSellerPrice ==
    \A k \in 1..Len(offers) :
        LET o == offers[k]
        IN (o.agreed /\ Last(o.conversation).sender = "client") =>
               o.negotiated_price = SellerLastPrice(o.conversation, o.initial_price)

\* The buyer's turn that follows a seller acceptance at a price within the
\* budget in a round that was not the last.
AfterProvisionalAcceptance ==
    /\ pc = "buyer"
    /\ conversation # <<>>
    /\ Last(conversation).sender = "merchant"
    /\ Last(conversation).accept
    /\ ~Last(conversation).reject
    /\ WithinBudget(budget, Last(conversation).proposed_price)

\* C36: after the seller accepted at a price within the budget in a round
\* that is not the last, the buyer's turn of the next round ends the
\* negotiation, and if the buyer accepts there the final price is the price
\* the seller accepted.
C36_BuyerConfirmsProvisionalPrice ==
    [][(AfterProvisionalAcceptance /\ calls' = calls + 1) =>
          /\ pc' = "final"
          /\ agreed' => current_price' = Last(conversation).proposed_price]_vars


\* The transfer was executed with a transaction hash and the recipient read
\* from the ledger is the seller's address; store_evidence is next.
VerifiedTransferDone ==
    /\ pay_pc = "evidence"
    /\ Truthy(pay.transaction_hash)
    /\ Truthy(pay.actual_recipient_address)
    /\ Lower(pay.actual_recipient_address) = Lower(ExpectedMerchant(pay))

\* C38: once the transfer has been executed and the ledger-verified
\* recipient is the seller's address, execute_x402_payment returns
\* status 'success' with the transaction hash, whether or not
\* store_evidence succeeds.
C38_VerifiedTransferReturnsSuccess ==
    [][(VerifiedTransferDone /\ pay_pc' = "idle") =>
          /\ pay_result'.status = "success"
          /\ pay_result'.transaction_hash = pay.transaction_hash]_vars


\* The step logs the creation of a payment intent or a transfer.
StartsSettlement ==
    /\ Len(pay_log') = Len(pay_log) + 1
    /\ Last(pay_log').op \in {"intent", "transfer"}

\* Number of transfers executed so far.
Transfers == Cardinality({k \in 1..Len(pay_log) : pay_log[k].op = "transfer"})

\* C37: an intent is created or a transfer executed only while a route
\* waits for the settlement of its request's best offer, which is agreed and
\* within the request's budget, and for that offer's id and price; a request
\* invokes the settlement at most once and an invocation executes at most
\* one transfer, so a request that ended without agreement executes none.
C37_SettlementOnlyForSelectedDeal ==
    [][/\ StartsSettlement =>
             /\ route_pc = "paying"
             /\ request.result.has_offer
             /\ request.result.agreed
             /\ WithinBudget(request.budget, request.result.negotiated_price)
             /\ ~request.dry_run
             /\ Last(pay_log').negotiation_id = request.result.negotiation_id
             /\ pay.negotiation_id = request.result.negotiation_id
             /\ pay.final_price = request.result.negotiated_price
       /\ (StartsSettlement /\ Last(pay_log').op = "transfer") =>
             pay_pc = "transfer" /\ pay_pc' # "transfer"
       /\ (pay_pc' = "transfer" /\ pay_pc # "transfer") => pay_pc = "intent"
       /\ (pay_pc' = "intent" /\ pay_pc # "intent") =>
             /\ route_pc = "idle" /\ route_pc' = "paying"
             /\ requests' = requests + 1
       /\ (route_pc = "paying" /\ route_pc' # "paying") => requests' = requests
       /\ (route_pc = "paying" /\ pay_pc = "idle") => route_pc' = "idle"]_vars

\* Two requests have each had their deal's transfer executed.
C37_Witness ==
    /\ requests = 2
    /\ Transfers = 2
    /\ route_pc = "paying"


\* The decision service gives the three answers of the round trip.
RoundTripPlayed == script = RoundTripScript

\* C35: with initial price 1000, ceiling 20%, budget 850 and max_rounds 5,
\* when the buyer's decision opens at 900, the seller's counters at 850
\* without accepting and the buyer's accepts 850, the negotiation ends after
\* exactly three Proposals, agreed at 850: no fourth invocation is made, the
\* offer is agreed at 850 with a transcript of three Proposals, and the
\* status written to the record is 'agreed' with final price 850.
C35_RoundTripAgreedAt850 ==
    RoundTripPlayed =>
        /\ calls <= 3
        /\ pc # "abandon"
        /\ pc \in {"buyer", "seller"} => calls < 3
        /\ pc = "final" =>
              /\ calls = 3
              /\ agreed
              /\ current_price = 850
              /\ Len(conversation) = 3
        /\ \A k \in 1..Len(offers) :
              /\ offers[k].agreed
              /\ offers[k].negotiated_price = 850
              /\ Len(offers[k].conversation) = 3
        /\ \A id \in 1..MaxProducts :
              /\ negotiations[id].status \in {"none", "in_progress", "agreed"}
              /\ negotiations[id].status = "agreed" => negotiations[id].final_price = 850
        /\ (pc = "done" /\ offers # <<>>) =>
              /\ result.status = "offer_selected"
              /\ result.best_offer.negotiated_price = 850

\* The round trip was played, its record says 'agreed' and start_shopping
\* returned the offer at 850.
C35_Witness ==
    /\ RoundTripPlayed
    /\ pc = "done"
    /\ result.deal_successful
    /\ result.best_offer.negotiated_price = 850
    /\ Len(result.best_offer.conversation) = 3
    /\ negotiations[1].status = "agreed"


====
